---- MODULE Spec2Model ----
(***************************************************************************)
(* Model of the portal monitor (fabimarinho/MONITORAMENTO).                *)
(*                                                                         *)
(* Two programs share the Log Store (relatorio/logs.jsonl):                *)
(*   - NOVO_MONITORAMENTO: SiteChecker.perform_check wrapped by tenacity's *)
(*     @retry, called by run_check.py (ad-hoc) and by main.py;             *)
(*   - monitor_japeri.py: the standalone script, whose perform_check is    *)
(*     run by a BackgroundScheduler job and by the main thread.            *)
(* Specification Spec covers the first, SpecJaperi the second (and        *)
(* SpecJaperiTimed the second with the wall clock running); SpecStore      *)
(* covers the log file with its writers and the report generators, and     *)
(* SpecJobs the job functions with the alert transport.                    *)
(***************************************************************************)
EXTENDS Integers, Sequences, FiniteSets, TLC

\* ---------------------------------------------------------------- bounds
MaxCycles == 1          \* ad-hoc invocations of run_check.py that are modelled
MaxLines == 2           \* lines LOG_FILE comes to hold
MaxDay == 30            \* last day on which the programs are observed
MaxClock == 1           \* seconds of wall clock that are modelled
MaxJobRuns == 3         \* firings of job functions that are modelled
MaxSchedRuns == 1       \* firings of the recurring job_check that are modelled

\* ------------------------------------------------------ program constants
StopAfterAttempt == 3   \* stop_after_attempt(3)
WaitMultiplier == 1     \* wait_exponential(multiplier=1, ...)
WaitMin == 4            \* wait_exponential(min=4)
WaitMax == 10           \* wait_exponential(max=10)
ExpBase == 2            \* wait_exponential default exp_base
HttpOk == 200           \* r.status_code == 200

\* Status codes the GET may answer with (one success, one failure).
StatusCodes == {200, 503}

VARIABLES
    \* --- shared by both programs
    log,            \* the Log Store: sequence of records, one per line
    alerts,         \* texts handed to send_slack, in call order
    files,          \* screenshot files present in FAIL_DIR
    clock,          \* wall clock, in seconds
    \* --- NOVO_MONITORAMENTO: one run_check.py process
    pc,             \* position inside the retry-wrapped perform_check
    outcome,        \* how the last cycle ended: "none", "returned", "RetryError"
    cycles,         \* cycles started so far
    attempt,        \* tenacity's attempt_number
    delays,         \* backoff sleeps of the current cycle
    result,         \* the result dict of the current attempt
    step,           \* state of the browser probe's state machine
    detail_msgs,    \* the message trail of the current browser probe
    playwright_ok,  \* local of _do_playwright_check
    captured,       \* page.screenshot wrote its file in the current attempt
    calls,          \* external calls the current attempt has made, in order
    appended,       \* records this cycle has appended to the Log Store
    notified,       \* send_slack calls this cycle has made
    \* --- NOVO_MONITORAMENTO: the main.py process
    mainpc,         \* position inside main()
    jobs,           \* jobs registered with main.py's scheduler
    \* --- monitor_japeri.py: main thread and the scheduler's worker
    jpc,            \* per thread: position inside job_check / perform_check
    jres,           \* per thread: the result dict
    jok,            \* per thread: playwright_ok
    jmsgs,          \* per thread: detail_msgs
    jshot,          \* per thread: screenshot_path
    jcaptured,      \* per thread: page.screenshot wrote its file
    jviewer,        \* per thread: pdf_found, an iframe or embed was on the page
    started,        \* scheduler.start() has been called
    schedRuns,      \* firings of the recurring job so far
    \* the log file and its readers
    written,        \* entries append_log has written, in order
    foreign,        \* lines that did not come from append_log
    report,         \* outcome of the last report generation
    \* monitor_japeri.py: the scheduled jobs and the alert transport
    webhook,        \* SLACK_WEBHOOK: "unread", "unset" or "set"
    jobpc,          \* per job: position inside the job function
    deliveries,     \* how each send_slack call of a job handler ended
    jobRuns         \* job firings so far

sharedVars == <<log, alerts, files, clock>>
checkerVars == <<pc, outcome, cycles, attempt, delays, result, step,
                 detail_msgs, playwright_ok, captured, calls, appended,
                 notified>>
mainVars == <<mainpc, jobs>>
japeriVars == <<jpc, jres, jok, jmsgs, jshot, jcaptured, jviewer, started,
                schedRuns>>
storeVars == <<written, foreign, report>>
jobVars == <<webhook, jobpc, deliveries, jobRuns>>
vars == <<log, alerts, files, clock,
          pc, outcome, cycles, attempt, delays, result, step,
          detail_msgs, playwright_ok, captured, calls, appended, notified,
          mainpc, jobs,
          jpc, jres, jok, jmsgs, jshot, jcaptured, jviewer, started, schedRuns,
          written, foreign, report,
          webhook, jobpc, deliveries, jobRuns>>

\* ---------------------------------------------------------------- values
NoPath == <<>>                          \* screenshot: None
NoTime == -1                            \* recorded_at not stamped yet
NoDetail == [kind |-> "None", status_code |-> 0, messages |-> <<>>]

\* http_detail = {"status_code": ..., "elapsed": ...}
StatusDetail(code) == [kind |-> "status", status_code |-> code, messages |-> <<>>]
\* {"error": str(e)}  /  {"error": str(e), "traceback": tb}
ErrorDetail == [kind |-> "error", status_code |-> 0, messages |-> <<>>]
\* playwright_detail = {"messages": detail_msgs}
MessagesDetail(msgs) == [kind |-> "messages", status_code |-> 0, messages |-> msgs]

\* The result dict as perform_check builds it before the probes run.
NewResult(ts) ==
    [timestamp |-> ts, ok_http |-> FALSE, http_detail |-> NoDetail,
     ok_playwright |-> FALSE, playwright_detail |-> NoDetail,
     screenshot |-> NoPath, recorded_at |-> NoTime]

\* now_str(): the formatted current time
now_str == clock

Max(a, b) == IF a >= b THEN a ELSE b
Min(a, b) == IF a <= b THEN a ELSE b

RECURSIVE Pow(_, _)
Pow(b, e) == IF e = 0 THEN 1 ELSE b * Pow(b, e - 1)

\* tenacity wait_exponential(multiplier, min, max).__call__ for the attempt
\* that has just failed.
wait_exponential(attempt_number) ==
    LET exp == Pow(ExpBase, attempt_number - 1)
        res == WaitMultiplier * exp
    IN  Max(Max(0, WaitMin), Min(res, WaitMax))

\* A stop condition that is off by one: it lets a fourth attempt run.
stop_after_attempt_late(attempt_number) == attempt_number > StopAfterAttempt

\* tenacity stop_after_attempt(3).__call__
stop_after_attempt(attempt_number) == attempt_number >= StopAfterAttempt

\* An alert condition that needs both probes to fail.
NeedsAlertBoth(r) == ~r.ok_http /\ ~r.ok_playwright

\* perform_check's alert condition
NeedsAlert(r) == ~r.ok_http \/ ~r.ok_playwright

\* send_slack(text): the text is handed to the transport (or printed when no
\* webhook is configured); it never raises.
send_slack(text) == alerts' = Append(alerts, text)

\* _notify_failure's message: outcomes, detail and screenshot if present
FailureMsg(r) ==
    [kind |-> "problema", ok_http |-> r.ok_http, ok_playwright |-> r.ok_playwright,
     detail |-> r.playwright_detail, screenshot |-> r.screenshot]

\* ------------------------------------------------------- the log file
\* LOG_FILE is a text: a sequence of pieces, each the JSON text of one entry,
\* a text that is not JSON, or a line break.
LineBreak == <<"nl">>

\* a text json.loads rejects (a truncated or foreign line)
NotJson == <<"junk">>

\* json.dumps(entry, ensure_ascii=False): one piece of text without a raw
\* line break (line breaks inside strings are escaped).
json_dumps(entry) == <<"json", entry>>

\* json.loads accepts a line iff it holds exactly one JSON text (an empty
\* line and two texts run together both raise JSONDecodeError).
JsonParses(line) == Len(line) = 1 /\ line[1][1] = "json"

json_loads(line) == line[1][2]

\* An append that forgets the line break.
WriteLineNoBreak(f, entry) == f \o <<json_dumps(entry)>>

\* An append that opens the file with mode "w".
WriteLineTruncating(f, entry) == <<json_dumps(entry), LineBreak>>

\* open(LOG_FILE, "a") ... f.write(json.dumps(entry) + "\n")
WriteLine(f, entry) == f \o <<json_dumps(entry), LineBreak>>

\* Position of the first line break of a text, 0 if it has none.
FirstBreak(f) ==
    IF \E i \in 1..Len(f) : f[i] = LineBreak
    THEN CHOOSE i \in 1..Len(f) :
            f[i] = LineBreak /\ \A j \in 1..(i - 1) : f[j] # LineBreak
    ELSE 0

\* "for line in f": the lines of the file in order; a last line without a
\* line break is yielded too.
RECURSIVE FileLines(_)
FileLines(f) ==
    IF Len(f) = 0 THEN <<>>
    ELSE LET k == FirstBreak(f)
         IN  IF k = 0 THEN <<f>>
             ELSE <<SubSeq(f, 1, k - 1)>> \o FileLines(SubSeq(f, k + 1, Len(f)))

\* The parsed lines of a sequence of lines, unparseable ones skipped.
RECURSIVE ParsedLines(_)
ParsedLines(lines) ==
    IF Len(lines) = 0 THEN <<>>
    ELSE IF JsonParses(Head(lines))
         THEN <<json_loads(Head(lines))>> \o ParsedLines(Tail(lines))
         ELSE ParsedLines(Tail(lines))

\* ReportGenerator._read_all_logs
read_all_logs(f) == ParsedLines(FileLines(f))

\* ---------------------------------------------------------------- dates
\* A timestamp "%Y-%m-%d %H:%M:%S %Z" is the number of seconds it denotes;
\* its first ten characters, the "%Y-%m-%d" prefix, are its day.
DayLength == 86400
DateOf(ts) == ts \div DayLength

\* l.get("timestamp", "").startswith(day_prefix)
StartsWithDay(l, day) == DateOf(l.timestamp) = day

\* No report has been generated yet.
NoReport ==
    [fn |-> "none", date |-> 0, status |-> "none", cause |-> "none",
     logs |-> <<>>, total |-> 0, ok_count |-> 0, incidents |-> <<>>,
     path |-> <<>>]

\* The three job functions of the scheduler
JobNames == {"job_check", "job_daily_report", "job_monthly_report"}

\* ------------------------------------------------------------------ Init
Threads == {"main", "sched"}

Init ==
    /\ log = <<>>
    /\ alerts = <<>>
    /\ files = {}
    /\ clock = 0
    /\ pc = "idle"
    /\ outcome = "none"
    /\ cycles = 0
    /\ attempt = 0
    /\ delays = <<>>
    /\ result = NewResult(0)
    /\ step = "Start"
    /\ detail_msgs = <<>>
    /\ playwright_ok = FALSE
    /\ captured = FALSE
    /\ calls = <<>>
    /\ appended = 0
    /\ notified = 0
    /\ mainpc = "stopped"
    /\ jobs = {}
    /\ jpc = [t \in Threads |-> IF t = "main" THEN "boot" ELSE "idle"]
    /\ jres = [t \in Threads |-> NewResult(0)]
    /\ jok = [t \in Threads |-> FALSE]
    /\ jmsgs = [t \in Threads |-> <<>>]
    /\ jshot = [t \in Threads |-> NoPath]
    /\ jcaptured = [t \in Threads |-> FALSE]
    /\ jviewer = [t \in Threads |-> FALSE]
    /\ started = FALSE
    /\ schedRuns = 0
    /\ written = <<>>
    /\ foreign = 0
    /\ report = NoReport
    /\ webhook = "unread"
    /\ jobpc = [j \in JobNames |-> "idle"]
    /\ deliveries = <<>>
    /\ jobRuns = 0

\* =================================================== NOVO_MONITORAMENTO
\* The operator starts the two programs from one shell, one at a time: a
\* program starts only when the other is not running.
\*
\* run_check.py: checker.perform_check() -- tenacity starts attempt 1.
RunCheck ==
    /\ pc \in {"idle", "ended"}
    /\ mainpc = "stopped"
    /\ cycles < MaxCycles
    /\ cycles' = cycles + 1
    /\ clock' = clock + 1
    /\ pc' = "attempt"
    /\ outcome' = "none"
    /\ attempt' = 1
    /\ delays' = <<>>
    /\ appended' = 0
    /\ notified' = 0
    /\ UNCHANGED <<log, alerts, files, result, step, detail_msgs,
                   playwright_ok, captured, calls>>
    /\ UNCHANGED <<mainVars, japeriVars, storeVars, jobVars>>

\* perform_check, lines 18-28: timestamp and the initial result dict.
BeginAttempt ==
    /\ pc = "attempt"
    /\ result' = NewResult(now_str)
    /\ step' = "Start"
    /\ detail_msgs' = <<>>
    /\ playwright_ok' = FALSE
    /\ captured' = FALSE
    /\ calls' = <<>>
    /\ pc' = "http"
    /\ UNCHANGED <<log, alerts, files, clock, outcome, cycles, attempt,
                   delays, appended, notified>>
    /\ UNCHANGED <<mainVars, japeriVars, storeVars, jobVars>>

\* A status test that accepts every status from 200 up.
HttpAnsweredLoose(code) == [http_detail |-> StatusDetail(code), ok_http |-> (code >= HttpOk)]

\* _do_http_check's two return values
HttpAnswered(code) == [http_detail |-> StatusDetail(code), ok_http |-> (code = HttpOk)]
HttpRaised == [http_detail |-> ErrorDetail, ok_http |-> FALSE]

\* A perform_check that goes straight to the log when the GET did not
\* answer 200.
DoHttpCheckSkipsBrowser ==
    /\ pc = "http"
    /\ \E upd \in {HttpAnswered(c) : c \in StatusCodes} \cup {HttpRaised} :
          /\ result' = [result EXCEPT !.http_detail = upd.http_detail,
                                      !.ok_http = upd.ok_http]
          /\ pc' = IF upd.ok_http THEN "launch" ELSE "append"
    /\ calls' = Append(calls, "get")
    /\ UNCHANGED <<log, alerts, files, clock, outcome, cycles, attempt,
                   delays, step, detail_msgs, playwright_ok, captured,
                   appended, notified>>
    /\ UNCHANGED <<mainVars, japeriVars, storeVars, jobVars>>

\* result.update(self._do_http_check())
DoHttpCheck ==
    /\ pc = "http"
    /\ \E upd \in {HttpAnswered(c) : c \in StatusCodes} \cup {HttpRaised} :
          result' = [result EXCEPT !.http_detail = upd.http_detail,
                                   !.ok_http = upd.ok_http]
    /\ calls' = Append(calls, "get")
    /\ pc' = "launch"
    /\ UNCHANGED <<log, alerts, files, clock, outcome, cycles, attempt,
                   delays, step, detail_msgs, playwright_ok, captured,
                   appended, notified>>
    /\ UNCHANGED <<mainVars, japeriVars, storeVars, jobVars>>

\* ------------------------------------------------ Browser Interaction Probe
\* The state machine of section 4.2, in the order the code walks it.
Steps == <<"Start", "PageLoaded", "OrgSelected", "DocumentListVisible",
           "DocumentOpened", "Verified">>
Rank(s) == CHOOSE i \in 1..Len(Steps) : Steps[i] = s

\* Messages _interact_with_page appends on success
MsgOrgSelected == "select: organizacao selecionada"
MsgDocOpened == "documento aberto com sucesso"
\* f"erro: {str(e)}": the terminal note, one per cause
ErroNote(cause) == <<"erro", cause>>
Note(text) == <<"msg", text>>

\* The exception path of _do_playwright_check (lines 81-86): the dict it
\* returns has no "screenshot" key, so result["screenshot"] stays None.
PlaywrightRaised(r) ==
    [r EXCEPT !.ok_playwright = FALSE, !.playwright_detail = ErrorDetail]

\* A return that leaves "ok_playwright" out of the dict.
PlaywrightReturnedKeepsFalse(r, ok, msgs, shot) ==
    [r EXCEPT !.playwright_detail = MessagesDetail(msgs), !.screenshot = shot]

\* The normal return of _do_playwright_check (lines 75-79)
PlaywrightReturned(r, ok, msgs, shot) ==
    [r EXCEPT !.ok_playwright = ok, !.playwright_detail = MessagesDetail(msgs),
              !.screenshot = shot]

\* Lines 60-64: launch the browser, open a page, goto PORTAL_URL.  An
\* exception here is caught by the handler at line 81.
LaunchAndGoto ==
    /\ pc = "launch"
    /\ \/ /\ step' = "PageLoaded"
          /\ detail_msgs' = <<>>
          /\ pc' = "select"
          /\ UNCHANGED result
       \/ /\ step' = "Failed"
          /\ result' = PlaywrightRaised(result)
          /\ pc' = "append"
          /\ UNCHANGED detail_msgs
    /\ calls' = Append(calls, "launch")
    /\ UNCHANGED <<log, alerts, files, clock, outcome, cycles, attempt,
                   delays, playwright_ok, captured, appended, notified>>
    /\ UNCHANGED <<mainVars, japeriVars, storeVars, jobVars>>

\* A step of _interact_with_page that succeeds: the state machine advances
\* and the step's messages, if any, are appended.
StepSucceeds(reached, msgs, nextpc) ==
    /\ step' = reached
    /\ detail_msgs' = detail_msgs \o msgs
    /\ pc' = nextpc

\* An except branch that reports success.
StepFailsReportsOk(cause) ==
    /\ step' = "Failed"
    /\ detail_msgs' = Append(detail_msgs, ErroNote(cause))
    /\ playwright_ok' = TRUE
    /\ pc' = "pw_finish"

\* An except branch that replaces the trail by the terminal note.
StepFailsDropsTrail(cause) ==
    /\ step' = "Failed"
    /\ detail_msgs' = <<ErroNote(cause)>>
    /\ playwright_ok' = FALSE
    /\ pc' = "pw_finish"

\* The except branch of _interact_with_page (lines 112-114).
StepFails(cause) ==
    /\ step' = "Failed"
    /\ detail_msgs' = Append(detail_msgs, ErroNote(cause))
    /\ playwright_ok' = FALSE
    /\ pc' = "pw_finish"

interactUnchanged ==
    /\ UNCHANGED <<log, alerts, files, clock, outcome, cycles, attempt,
                   delays, result, captured, calls, appended, notified>>
    /\ UNCHANGED <<mainVars, japeriVars, storeVars, jobVars>>

\* Lines 91-94: org_select visible, select_option(label)
SelectOrg ==
    /\ pc = "select"
    /\ \/ StepSucceeds("OrgSelected", <<Note(MsgOrgSelected)>>, "doclist")
          /\ UNCHANGED playwright_ok
       \/ \E cause \in {"org_select not visible", "option not found"} :
             StepFails(cause)
    /\ interactUnchanged

\* Lines 97-98: doc_list visible
WaitDocList ==
    /\ pc = "doclist"
    /\ \/ StepSucceeds("DocumentListVisible", <<>>, "opendoc")
          /\ UNCHANGED playwright_ok
       \/ StepFails("doc_list not visible")
    /\ interactUnchanged

\* Lines 101-103: first_doc visible, click
OpenFirstDoc ==
    /\ pc = "opendoc"
    /\ \/ StepSucceeds("DocumentOpened", <<>>, "verify")
          /\ UNCHANGED playwright_ok
       \/ \E cause \in {"first_doc not visible", "click failed"} :
             StepFails(cause)
    /\ interactUnchanged

\* Lines 106-110: doc_viewer visible, final message, return True
VerifyViewer ==
    /\ pc = "verify"
    /\ \/ StepSucceeds("Verified", <<Note(MsgDocOpened)>>, "pw_finish")
          /\ playwright_ok' = TRUE
       \/ StepFails("doc_viewer not visible")
    /\ interactUnchanged

\* _take_failure_screenshot's path: FAIL_DIR / fail_<timestamp>.png
ScreenshotPath(ts) == <<"fail", ts>>

\* Lines 69-79: screenshot on failure, browser.close(), return the dict.
\* page.screenshot either writes the file and the path is returned, or it
\* raises and _take_failure_screenshot returns None.
FinishPlaywright ==
    /\ pc = "pw_finish"
    /\ IF ~playwright_ok
       THEN /\ calls' = Append(calls, "screenshot")
            /\ \/ /\ files' = files \cup {ScreenshotPath(clock)}
                  /\ captured' = TRUE
                  /\ result' = PlaywrightReturned(result, playwright_ok,
                                   detail_msgs, ScreenshotPath(clock))
               \/ /\ result' = PlaywrightReturned(result, playwright_ok,
                                   detail_msgs, NoPath)
                  /\ UNCHANGED <<files, captured>>
       ELSE /\ result' = PlaywrightReturned(result, playwright_ok,
                                detail_msgs, NoPath)
            /\ UNCHANGED <<files, captured, calls>>
    /\ pc' = "append"
    /\ UNCHANGED <<log, alerts, clock, outcome, cycles, attempt, delays,
                   step, detail_msgs, playwright_ok, appended, notified>>
    /\ UNCHANGED <<mainVars, japeriVars, storeVars, jobVars>>

\* ------------------------------------------------------------ Log Store
\* append_log: stamps recorded_at on the entry, then opens the file and
\* writes one line.  The stamp is set before the file is opened.
Stamped(entry) == [entry EXCEPT !.recorded_at = now_str]

\* Line 37, append_log succeeds.
AppendLog ==
    /\ pc = "append"
    /\ result' = Stamped(result)
    /\ log' = WriteLine(log, Stamped(result))
    /\ appended' = appended + 1
    /\ calls' = Append(calls, "append")
    /\ pc' = "notify"
    /\ UNCHANGED <<alerts, files, clock, outcome, cycles, attempt, delays,
                   step, detail_msgs, playwright_ok, captured, notified>>
    /\ UNCHANGED <<mainVars, japeriVars, storeVars, jobVars>>

\* Line 37, append_log raises (the file cannot be opened or written): nothing
\* in perform_check catches it, so the exception reaches tenacity.
AppendLogRaises ==
    /\ pc = "append"
    /\ result' = Stamped(result)
    /\ calls' = Append(calls, "append")
    /\ pc' = "raised"
    /\ UNCHANGED <<log, alerts, files, clock, outcome, cycles, attempt,
                   delays, step, detail_msgs, playwright_ok, captured,
                   appended, notified>>
    /\ UNCHANGED <<mainVars, japeriVars, storeVars, jobVars>>

\* Lines 40-43: notify if a flag is false, return the result.
NotifyAndReturn ==
    /\ pc = "notify"
    /\ IF NeedsAlert(result)
       THEN /\ send_slack(FailureMsg(result))
            /\ notified' = notified + 1
            /\ calls' = Append(calls, "slack")
       ELSE UNCHANGED <<alerts, notified, calls>>
    /\ pc' = "ended"
    /\ outcome' = "returned"
    /\ UNCHANGED <<log, files, clock, cycles, attempt, delays, result, step,
                   detail_msgs, playwright_ok, captured, appended>>
    /\ UNCHANGED <<mainVars, japeriVars, storeVars, jobVars>>

\* ---------------------------------------------------------- Retry Policy
\* tenacity after an attempt raised and stop is not reached: sleep for the
\* backoff, then call the function again.
RetrySleep ==
    /\ pc = "raised"
    /\ ~stop_after_attempt(attempt)
    /\ delays' = Append(delays, wait_exponential(attempt))
    /\ clock' = clock + wait_exponential(attempt)
    /\ attempt' = attempt + 1
    /\ pc' = "attempt"
    /\ UNCHANGED <<log, alerts, files, outcome, cycles, result, step,
                   detail_msgs, playwright_ok, captured, calls, appended,
                   notified>>
    /\ UNCHANGED <<mainVars, japeriVars, storeVars, jobVars>>

\* tenacity after an attempt raised and stop is reached: RetryError is
\* raised to the caller of perform_check (reraise is not set).
RetryStop ==
    /\ pc = "raised"
    /\ stop_after_attempt(attempt)
    /\ pc' = "ended"
    /\ outcome' = "RetryError"
    /\ UNCHANGED <<log, alerts, files, clock, cycles, attempt, delays,
                   result, step, detail_msgs, playwright_ok, captured,
                   calls, appended, notified>>
    /\ UNCHANGED <<mainVars, japeriVars, storeVars, jobVars>>

\* ------------------------------------------------------------- main.py
\* main() starts with load_settings(): Settings.__post_init__ raises
\* ValueError when SITE_URL or PORTAL_URL is empty or the timezone is invalid.
MainLoadSettings ==
    /\ mainpc = "stopped"
    /\ pc \in {"idle", "ended"}
    /\ \E valid \in BOOLEAN :
          mainpc' = IF valid THEN "configured" ELSE "config_error"
    /\ UNCHANGED <<sharedVars, checkerVars, jobs, japeriVars, storeVars, jobVars>>

\* Lines 46-51: scheduler.add_job(job_check, 'interval',
\* minutes=settings.CHECK_INTERVAL_MINUTES, ...).  Settings has no attribute
\* CHECK_INTERVAL_MINUTES (its field is CHECK_INTERVAL_HOURS), so evaluating
\* the argument raises AttributeError and main() ends before any job is
\* registered and before scheduler.start().
MainAddCheckJob ==
    /\ mainpc = "configured"
    /\ mainpc' = "crashed"
    /\ UNCHANGED <<sharedVars, checkerVars, jobs, japeriVars, storeVars, jobVars>>

\* The exception leaves main() and the process exits with the traceback.
MainExit ==
    /\ mainpc \in {"config_error", "crashed"}
    /\ mainpc' = "stopped"
    /\ UNCHANGED <<sharedVars, checkerVars, jobs, japeriVars, storeVars, jobVars>>

Next ==
    \/ RunCheck \/ BeginAttempt \/ DoHttpCheck \/ LaunchAndGoto
    \/ SelectOrg \/ WaitDocList \/ OpenFirstDoc \/ VerifyViewer
    \/ FinishPlaywright \/ AppendLog \/ AppendLogRaises \/ NotifyAndReturn
    \/ RetrySleep \/ RetryStop
    \/ MainLoadSettings \/ MainAddCheckJob \/ MainExit

Spec == Init /\ [][Next]_vars

\* ====================================================== monitor_japeri.py
\* Positions of a thread that is inside perform_check
JChecking == {"begin", "http", "launch", "interact", "shot", "append", "notify"}
\* Positions at which the thread holds a launched browser
JBrowserOpen == {"interact", "shot"}

japeriOthers == UNCHANGED <<checkerVars, mainVars, storeVars, jobVars>>

\* Lines 386-388: the main thread starts the scheduler.
JStartScheduler ==
    /\ jpc["main"] = "boot"
    /\ started' = TRUE
    /\ jpc' = [jpc EXCEPT !["main"] = "call"]
    /\ UNCHANGED <<sharedVars, jres, jok, jmsgs, jshot, jcaptured, jviewer,
                   schedRuns>>
    /\ japeriOthers

\* Line 390: the main thread calls job_check() itself, right after start().
JInitialCheck ==
    /\ jpc["main"] = "call"
    /\ jpc' = [jpc EXCEPT !["main"] = "begin"]
    /\ UNCHANGED <<sharedVars, jres, jok, jmsgs, jshot, jcaptured, jviewer, started,
                   schedRuns>>
    /\ japeriOthers

\* Line 364: the recurring job (interval, next_run_time = now) fires on the
\* scheduler's worker once the scheduler runs.  APScheduler's max_instances
\* default of 1 keeps a job from overlapping its own previous run; it knows
\* nothing of the main thread's direct call.
JScheduledCheck ==
    /\ started
    /\ jpc["sched"] = "idle"
    /\ schedRuns < MaxSchedRuns
    /\ schedRuns' = schedRuns + 1
    /\ jpc' = [jpc EXCEPT !["sched"] = "begin"]
    /\ UNCHANGED <<sharedVars, jres, jok, jmsgs, jshot, jcaptured, jviewer,
                   started>>
    /\ japeriOthers

\* Where a thread goes when its job_check returns
JAfterJob(t) == IF t = "main" THEN "loop" ELSE "idle"

\* perform_check's locals are gone once job_check has returned.
JDropLocals(t) ==
    /\ jres' = [jres EXCEPT ![t] = NewResult(0)]
    /\ jok' = [jok EXCEPT ![t] = FALSE]
    /\ jmsgs' = [jmsgs EXCEPT ![t] = <<>>]
    /\ jshot' = [jshot EXCEPT ![t] = NoPath]
    /\ jcaptured' = [jcaptured EXCEPT ![t] = FALSE]
    /\ jviewer' = [jviewer EXCEPT ![t] = FALSE]

\* Lines 72-82
JBegin(t) ==
    /\ jpc[t] = "begin"
    /\ jres' = [jres EXCEPT ![t] = NewResult(now_str)]
    /\ jok' = [jok EXCEPT ![t] = FALSE]
    /\ jmsgs' = [jmsgs EXCEPT ![t] = <<>>]
    /\ jshot' = [jshot EXCEPT ![t] = NoPath]
    /\ jcaptured' = [jcaptured EXCEPT ![t] = FALSE]
    /\ jviewer' = [jviewer EXCEPT ![t] = FALSE]
    /\ jpc' = [jpc EXCEPT ![t] = "http"]
    /\ UNCHANGED <<sharedVars, started, schedRuns>>
    /\ japeriOthers

\* Lines 85-91
JHttp(t) ==
    /\ jpc[t] = "http"
    /\ \E upd \in {HttpAnswered(c) : c \in StatusCodes} \cup {HttpRaised} :
          jres' = [jres EXCEPT ![t].http_detail = upd.http_detail,
                               ![t].ok_http = upd.ok_http]
    /\ jpc' = [jpc EXCEPT ![t] = "launch"]
    /\ UNCHANGED <<sharedVars, jok, jmsgs, jshot, jcaptured, jviewer, started,
                   schedRuns>>
    /\ japeriOthers

\* Lines 96-100: launch, new_page, goto.  An exception is caught by the outer
\* handler (lines 198-202), which leaves result["screenshot"] alone.
JLaunch(t) ==
    /\ jpc[t] = "launch"
    /\ \/ /\ jpc' = [jpc EXCEPT ![t] = "interact"]
          /\ UNCHANGED jres
       \/ /\ jres' = [jres EXCEPT ![t] = PlaywrightRaised(jres[t])]
          /\ jpc' = [jpc EXCEPT ![t] = "append"]
    /\ UNCHANGED <<sharedVars, jok, jmsgs, jshot, jcaptured, jviewer, started,
                   schedRuns>>
    /\ japeriOthers

\* Lines 105-137: select by label on some <select>, else click the
\* organization's text.
JSelectMsgs(selected, clicked) ==
    IF selected THEN <<Note("select: selecionado por label")>>
    ELSE <<Note("select: nao encontrou opcao por label"),
           IF clicked THEN Note("click: clicou no texto da organizacao")
           ELSE Note("click: nao encontrou texto exato da organizacao")>>

\* Lines 143-164: click the first anchor that looks like a publication, else
\* the first anchor; no anchor at all opens nothing.
JOpenMsgs(first_doc_opened) ==
    IF first_doc_opened THEN <<Note("clicou em link")>>
    ELSE <<Note("nenhum <a> encontrado")>>

\* Lines 169-181: the success heuristic
JVerdict(pdf_found, first_doc_opened) == pdf_found \/ first_doc_opened

JVerifyMsgs(ok) ==
    IF ok THEN <<Note("documento aberto (iframe/embed ou link aberto)")>>
    ELSE <<Note("nao detectado iframe/embed e o clique nao provou abertura")>>

\* Lines 102-181: the whole interaction with the loaded page.
JInteract(t) ==
    /\ jpc[t] = "interact"
    /\ \E selected \in BOOLEAN, clicked \in BOOLEAN,
          first_doc_opened \in BOOLEAN, pdf_found \in BOOLEAN :
          /\ selected => clicked
          /\ jok' = [jok EXCEPT ![t] = JVerdict(pdf_found, first_doc_opened)]
          /\ jviewer' = [jviewer EXCEPT ![t] = pdf_found]
          /\ jmsgs' = [jmsgs EXCEPT ![t] =
                 JSelectMsgs(selected, clicked) \o JOpenMsgs(first_doc_opened)
                 \o JVerifyMsgs(JVerdict(pdf_found, first_doc_opened))]
    /\ jpc' = [jpc EXCEPT ![t] = "shot"]
    /\ UNCHANGED <<sharedVars, jres, jshot, jcaptured, started, schedRuns>>
    /\ japeriOthers

\* screenshot_name = f"failure_{int(time.time())}.png"
JScreenshotPath(ts) == <<"failure", ts>>

\* Lines 186-190 when page.screenshot raises: screenshot_path was assigned
\* before the try, and the handler only appends a message.
JShotAfterFailure(path) == path

\* Lines 183-196: on failure take the screenshot; close the browser; fill in
\* the result.
JFinish(t) ==
    /\ jpc[t] = "shot"
    /\ IF ~jok[t]
       THEN \/ /\ files' = files \cup {JScreenshotPath(clock)}
               /\ jcaptured' = [jcaptured EXCEPT ![t] = TRUE]
               /\ jshot' = [jshot EXCEPT ![t] = JScreenshotPath(clock)]
               /\ jres' = [jres EXCEPT ![t] = PlaywrightReturned(jres[t],
                              jok[t], jmsgs[t], JScreenshotPath(clock))]
               /\ UNCHANGED jmsgs
            \/ /\ jmsgs' = [jmsgs EXCEPT ![t] =
                              Append(@, Note("erro ao tirar screenshot"))]
               /\ jshot' = [jshot EXCEPT ![t] =
                              JShotAfterFailure(JScreenshotPath(clock))]
               /\ jres' = [jres EXCEPT ![t] = PlaywrightReturned(jres[t],
                              jok[t], jmsgs'[t],
                              JShotAfterFailure(JScreenshotPath(clock)))]
               /\ UNCHANGED <<files, jcaptured>>
       ELSE /\ jres' = [jres EXCEPT ![t] = PlaywrightReturned(jres[t],
                              jok[t], jmsgs[t], NoPath)]
            /\ UNCHANGED <<files, jcaptured, jshot, jmsgs>>
    /\ jpc' = [jpc EXCEPT ![t] = "append"]
    /\ UNCHANGED <<log, alerts, clock, jok, jviewer, started, schedRuns>>
    /\ japeriOthers

\* Line 207, append_log succeeds.
JAppendLog(t) ==
    /\ jpc[t] = "append"
    /\ jres' = [jres EXCEPT ![t] = Stamped(jres[t])]
    /\ log' = WriteLine(log, Stamped(jres[t]))
    /\ jpc' = [jpc EXCEPT ![t] = "notify"]
    /\ UNCHANGED <<alerts, files, clock, jok, jmsgs, jshot, jcaptured,
                   jviewer, started, schedRuns>>
    /\ japeriOthers

\* Line 207, append_log raises: the exception leaves perform_check and is
\* caught by job_check (lines 361-362), which alerts and returns.
JAppendLogRaises(t) ==
    /\ jpc[t] = "append"
    /\ send_slack([kind |-> "erro critico no job_check"])
    /\ jpc' = [jpc EXCEPT ![t] = JAfterJob(t)]
    /\ JDropLocals(t)
    /\ UNCHANGED <<log, files, clock, started, schedRuns>>
    /\ japeriOthers

\* Lines 210-218: notify if a flag is false; return to job_check.
JNotifyAndReturn(t) ==
    /\ jpc[t] = "notify"
    /\ IF NeedsAlert(jres[t])
       THEN send_slack(FailureMsg(jres[t]))
       ELSE UNCHANGED alerts
    /\ jpc' = [jpc EXCEPT ![t] = JAfterJob(t)]
    /\ JDropLocals(t)
    /\ UNCHANGED <<log, files, clock, started, schedRuns>>
    /\ japeriOthers

JaperiNext ==
    \/ JStartScheduler \/ JInitialCheck \/ JScheduledCheck
    \/ \E t \in Threads :
          \/ JBegin(t) \/ JHttp(t) \/ JLaunch(t) \/ JInteract(t)
          \/ JFinish(t) \/ JAppendLog(t) \/ JAppendLogRaises(t)
          \/ JNotifyAndReturn(t)

SpecJaperi == Init /\ [][JaperiNext]_vars

\* The same program with the wall clock running: a second passes (the waits
\* of lines 101, 140 and 167, a page load, a thread waiting for the
\* processor) between any two steps of its threads.
JSecondPasses ==
    /\ clock < MaxClock
    /\ clock' = clock + 1
    /\ UNCHANGED <<log, alerts, files, japeriVars>>
    /\ japeriOthers

JaperiTimedNext ==
    \/ JaperiNext
    \/ JSecondPasses

SpecJaperiTimed == Init /\ [][JaperiTimedNext]_vars

\* =========================================== the jobs and the alert transport
\* monitor_japeri.py's three job functions, each a try around its body with
\* "except Exception" calling send_slack, and send_slack itself.  (main.py's
\* job functions and utils.send_slack are the same statements.)
jobsOthers ==
    UNCHANGED <<checkerVars, mainVars, japeriVars, storeVars, log, files, clock>>

\* Line 31: SLACK_WEBHOOK = os.getenv("SLACK_WEBHOOK", "").strip()
JobsReadEnv ==
    /\ webhook = "unread"
    /\ webhook' \in {"unset", "set"}
    /\ UNCHANGED <<alerts, jobpc, deliveries, jobRuns>>
    /\ jobsOthers

\* The scheduler (or, for job_check, the main thread) calls a job function.
JobFires(j) ==
    /\ webhook # "unread"
    /\ jobpc[j] = "idle"
    /\ jobRuns < MaxJobRuns
    /\ jobRuns' = jobRuns + 1
    /\ jobpc' = [jobpc EXCEPT ![j] = "body"]
    /\ UNCHANGED <<alerts, webhook, deliveries>>
    /\ jobsOthers

\* The body inside the try returns: the job function returns.
JobBodyReturns(j) ==
    /\ jobpc[j] = "body"
    /\ jobpc' = [jobpc EXCEPT ![j] = "idle"]
    /\ UNCHANGED <<alerts, webhook, deliveries, jobRuns>>
    /\ jobsOthers

\* The body raises (append_log in perform_check, json.loads in the daily
\* report, pdf.output): "except Exception as e" takes it.
JobBodyRaises(j) ==
    /\ jobpc[j] = "body"
    /\ jobpc' = [jobpc EXCEPT ![j] = "except"]
    /\ UNCHANGED <<alerts, webhook, deliveries, jobRuns>>
    /\ jobsOthers

\* The handler's text: "Erro critico no job_check: ...", "Erro ao gerar
\* relatorio diario: ...", "Erro ao gerar relatorio mensal: ..."
JobErrorText(j) == [kind |-> "erro", job |-> j]

\* A send_slack whose requests.post is not inside a try.
send_slack_unguarded(configured, post_raises) ==
    IF ~configured THEN "notice"
    ELSE IF post_raises THEN "raised"
    ELSE "posted"

\* How send_slack ends: without a webhook it prints the text and returns;
\* with one it posts, and an exception of requests.post is caught and printed.
send_slack_ends(configured, post_raises) ==
    IF ~configured THEN "notice"
    ELSE IF post_raises THEN "error printed"
    ELSE "posted"

\* The except clause of a job function: send_slack(...), then the function
\* returns.  An exception leaving send_slack would leave the job function.
JobHandler(j) ==
    /\ jobpc[j] = "except"
    /\ send_slack(JobErrorText(j))
    /\ \E post_raises \in BOOLEAN :
          LET end == send_slack_ends(webhook = "set", post_raises)
          IN  /\ deliveries' = Append(deliveries, end)
              /\ jobpc' = [jobpc EXCEPT ![j] =
                              IF end = "raised" THEN "escaped" ELSE "idle"]
    /\ UNCHANGED <<webhook, jobRuns>>
    /\ jobsOthers

JobsNext ==
    \/ JobsReadEnv
    \/ \E j \in JobNames :
          \/ JobFires(j) \/ JobBodyReturns(j) \/ JobBodyRaises(j)
          \/ JobHandler(j)

SpecJobs == Init /\ [][JobsNext]_vars

\* ================================================================ claims
CycleEnded == pc = "ended"
InteractionPcs == {"select", "doclist", "opendoc", "verify"}
IsErro(m) == m[1] = "erro"
ErroCount(msgs) == Cardinality({i \in 1..Len(msgs) : IsErro(msgs[i])})
IsPrefix(a, b) == Len(a) <= Len(b) /\ SubSeq(b, 1, Len(a)) = a

\* C1: when a probe cycle ends, exactly one record has been appended to the
\* Log Store during it, whatever errors occurred.
C1_ExactlyOneRecord == CycleEnded => appended = 1

\* C2: at no time do two threads hold a browser probe in flight.
C2_OneBrowserProbe ==
    \A t \in Threads, u \in Threads :
        (jpc[t] \in JBrowserOpen /\ jpc[u] \in JBrowserOpen) => t = u

\* C3: a cycle that completes has dispatched exactly one alert if ok_http or
\* ok_playwright is false in its result, and none if both are true.
C3_AlertIffFlagFalse ==
    (CycleEnded /\ outcome = "returned") =>
        notified = (IF ~result.ok_http \/ ~result.ok_playwright THEN 1 ELSE 0)

C3_Witness ==
    /\ CycleEnded /\ outcome = "returned"
    /\ result.ok_http /\ ~result.ok_playwright
    /\ notified = 1 /\ Len(alerts) = 1

\* C4: an attempt whose probes ran to completion with ok_http or
\* ok_playwright false is never followed by another attempt of the cycle.
C4_NoRetryAfterVerdict ==
    [][(pc = "raised" /\ pc' = "attempt") =>
          (result.ok_http /\ result.ok_playwright)]_vars

\* C5: attempts are sequential and at most 3; each retry follows a raised
\* attempt and a backoff sleep; the sleeps are non-decreasing and within
\* 4..10 seconds; a cycle whose attempts all raised makes exactly 3 attempts
\* and ends with the error surfaced to the caller.
C5_RetrySchedule ==
    /\ [](/\ attempt <= 3
          /\ pc # "idle" => Len(delays) = attempt - 1
          /\ \A i \in 1..Len(delays) : delays[i] >= 4 /\ delays[i] <= 10
          /\ \A i \in 1..Len(delays), j \in 1..Len(delays) :
                i <= j => delays[i] <= delays[j]
          /\ (CycleEnded /\ appended = 0) =>
                (outcome = "RetryError" /\ attempt = 3 /\ Len(delays) = 2))
    /\ [][attempt' # attempt =>
             \/ attempt' = 1 /\ pc \in {"idle", "ended"}
             \/ /\ attempt' = attempt + 1
                /\ pc = "raised"
                /\ Len(delays') = Len(delays) + 1
                /\ clock' = clock + delays'[Len(delays')]]_vars

C5_Witness ==
    CycleEnded /\ outcome = "RetryError" /\ attempt = 3 /\ delays = <<4, 4>>

\* C6: a failure to launch the browser or to load the page is retried: a
\* cycle returns a result carrying that error only from its last attempt.
C6_LaunchFailureRetried ==
    (CycleEnded /\ outcome = "returned" /\ result.playwright_detail.kind = "error")
        => attempt = StopAfterAttempt

\* C7: a cycle never ends with an exception escaping perform_check; it ends
\* with a result that is persisted and returned.
C7_NoExceptionEscapes ==
    CycleEnded =>
        /\ outcome = "returned"
        /\ Len(read_all_logs(log)) > 0
        /\ read_all_logs(log)[Len(read_all_logs(log))] = result

\* C8: in every result produced, screenshot is present iff ok_playwright is
\* false and the capture succeeded.
C8_ScreenshotIffCaptured ==
    \A t \in Threads :
        jpc[t] \in {"append", "notify"} =>
            (jres[t].screenshot # NoPath <=>
                (~jres[t].ok_playwright /\ jcaptured[t]))

\* C9: the browser probe's steps advance one at a time in the fixed order,
\* none is revisited, and ok_playwright is true only at Verified.
C9_StepOrder ==
    /\ [][step' # step =>
             \/ step' = "Failed" /\ step # "Verified"
             \/ step' = "Start" /\ pc = "attempt"
             \/ /\ step # "Failed" /\ step' \notin {"Failed", "Start"}
                /\ Rank(step') = Rank(step) + 1]_vars
    /\ []((playwright_ok \/ result.ok_playwright) => step = "Verified")

C9_Witness ==
    step = "Verified" /\ result.ok_playwright /\ pc = "append"

\* C10: once a step of the interaction fails, no later step runs and exactly
\* one message, the note "erro: <cause>", is appended; messages already in
\* the trail are never removed or reordered.
C10_FailureShortCircuits ==
    /\ [][/\ (step # "Failed" /\ step' = "Failed" /\ pc \in InteractionPcs) =>
                /\ Len(detail_msgs') = Len(detail_msgs) + 1
                /\ IsErro(detail_msgs'[Len(detail_msgs')])
          /\ (step = "Failed" /\ step' = "Failed") => detail_msgs' = detail_msgs
          /\ step' # "Start" => IsPrefix(detail_msgs, detail_msgs')]_vars
    /\ [](/\ step = "Failed" => pc \notin InteractionPcs
          /\ ErroCount(detail_msgs) <= 1
          /\ ErroCount(detail_msgs) = 1 => IsErro(detail_msgs[Len(detail_msgs)]))

C10_Witness ==
    /\ step = "Failed" /\ pc = "pw_finish"
    /\ detail_msgs = <<Note(MsgOrgSelected), ErroNote("doc_list not visible")>>

\* ============================================ the log file and the reports
\* append_log called by the checks of both programs, the four report
\* generators reading LOG_FILE, and lines that reach the file from elsewhere
\* (an editor, a write cut short by a crash).

\* The days on which the programs are observed running.
ObservedDays == {0, 1, MaxDay}

\* The local date changes (datetime.now(tz).date()).
NextDay ==
    /\ \E d \in ObservedDays :
          /\ d > DateOf(clock)
          /\ clock' = d * DayLength
    /\ UNCHANGED <<log, alerts, files, storeVars>>
    /\ UNCHANGED <<checkerVars, mainVars, japeriVars, jobVars>>

\* The entry a check hands to append_log: a result started now.
CheckEntry(http, playwright) ==
    [NewResult(now_str) EXCEPT !.ok_http = http, !.ok_playwright = playwright,
                                !.http_detail =
                                    StatusDetail(IF http THEN 200 ELSE 503),
                                !.playwright_detail = MessagesDetail(<<>>)]

\* The flags (ok_http, ok_playwright) of the checks that are appended:
\* a healthy check, a failed browser probe, a site that is down.
CheckOutcomes == {<<TRUE, TRUE>>, <<TRUE, FALSE>>, <<FALSE, FALSE>>}

\* utils.append_log(settings, entry) / monitor_japeri.append_log(entry)
StoreAppend ==
    /\ Len(written) + foreign < MaxLines
    /\ \E flags \in CheckOutcomes :
          /\ log' = WriteLine(log, Stamped(CheckEntry(flags[1], flags[2])))
          /\ written' = Append(written, Stamped(CheckEntry(flags[1], flags[2])))
    /\ UNCHANGED <<alerts, files, clock, foreign, report>>
    /\ UNCHANGED <<checkerVars, mainVars, japeriVars, jobVars>>

\* A line that is not a record reaches the file: a text json.loads rejects,
\* or an empty line.
ForeignLine ==
    /\ Len(written) + foreign < MaxLines
    /\ \E text \in {<<NotJson, LineBreak>>, <<LineBreak>>} :
          log' = log \o text
    /\ foreign' = foreign + 1
    /\ UNCHANGED <<alerts, files, clock, written, report>>
    /\ UNCHANGED <<checkerVars, mainVars, japeriVars, jobVars>>

\* ReportGenerator._get_logs_for_date
get_logs_for_date(f, for_date) ==
    SelectSeq(read_all_logs(f), LAMBDA l : StartsWithDay(l, for_date))

\* A window that starts a day early: timedelta(days=30) with range(30).
date_prefixes_early(reference_date) ==
    LET start_date == reference_date - 30
    IN  {start_date + i : i \in 0..29}

\* The thirty day prefixes of both monthly reports:
\* start_date = reference_date - timedelta(days=29), i in range(30)
date_prefixes(reference_date) ==
    LET start_date == reference_date - 29
    IN  {start_date + i : i \in 0..29}

\* ReportGenerator._get_logs_for_last_30_days
get_logs_for_last_30_days(f, reference_date) ==
    SelectSeq(read_all_logs(f),
              LAMBDA l : \E day \in date_prefixes(reference_date) :
                            StartsWithDay(l, day))

\* A success test that is satisfied by either flag.
IsOkEither(l) == l.ok_http \/ l.ok_playwright

\* l.get("ok_http") and l.get("ok_playwright")
IsOk(l) == l.ok_http /\ l.ok_playwright

\* sum(1 for l in logs if l.get("ok_http") and l.get("ok_playwright"))
OkCount(logs) == Cardinality({i \in 1..Len(logs) : IsOk(logs[i])})

\* [l for l in logs if not (l.get("ok_http") and l.get("ok_playwright"))]
Incidents(logs) == SelectSeq(logs, LAMBDA l : ~IsOk(l))

\* incidents[:20] of monitor_japeri.generate_monthly_report
IncidentCap == 20
FirstIncidents(incidents) ==
    SubSeq(incidents, 1, Min(IncidentCap, Len(incidents)))

\* DAILY_DIR / f"{for_date.isoformat()}_report.pdf" and
\* MONTHLY_DIR / f"{reference_date.isoformat()}_monthly_report.pdf"
DailyPath(for_date) == <<"daily", for_date, "report.pdf">>
MonthlyPath(reference_date) == <<"monthly", reference_date, "monthly_report.pdf">>

\* What a generator that completed has put in its document and returned.
Written(fn, day, logs, incidents, path) ==
    [fn |-> fn, date |-> day, status |-> "written", cause |-> "none",
     logs |-> logs, total |-> Len(logs), ok_count |-> OkCount(logs),
     incidents |-> incidents, path |-> path]

\* A generator left by an exception: no document, nothing returned.
Raised(fn, day, cause, logs) ==
    [fn |-> fn, date |-> day, status |-> "raised", cause |-> cause,
     logs |-> logs, total |-> 0, ok_count |-> 0, incidents |-> <<>>,
     path |-> <<>>]

\* ReportGenerator.generate_daily_report(for_date)
generate_daily_report(f, for_date) ==
    Written("report.daily", for_date, get_logs_for_date(f, for_date),
            Incidents(get_logs_for_date(f, for_date)), DailyPath(for_date))

\* ReportGenerator.generate_monthly_report(reference_date): the logs are
\* read (line 36), then line 41 calls self._write_monthly_header, which the
\* class does not define, and AttributeError leaves the method.
generate_monthly_report(f, reference_date) ==
    Raised("report.monthly", reference_date, "AttributeError",
           get_logs_for_last_30_days(f, reference_date))

\* monitor_japeri.generate_daily_report, lines 231-247: the handler of the
\* first json.loads(line) calls json.loads(line) again, so a line that does
\* not parse raises out of the function.
j_generate_daily_report(f, for_date) ==
    IF \A i \in 1..Len(FileLines(f)) : JsonParses(FileLines(f)[i])
    THEN LET logs_of_day == SelectSeq(ParsedLines(FileLines(f)),
                                      LAMBDA l : StartsWithDay(l, for_date))
         IN  Written("japeri.daily", for_date, logs_of_day,
                     Incidents(logs_of_day), DailyPath(for_date))
    ELSE Raised("japeri.daily", for_date, "JSONDecodeError", <<>>)

\* monitor_japeri.generate_monthly_report, lines 313-352
j_generate_monthly_report(f, reference_date) ==
    LET logs_30 == SelectSeq(ParsedLines(FileLines(f)),
                        LAMBDA l : \E day \in date_prefixes(reference_date) :
                                      StartsWithDay(l, day))
    IN  Written("japeri.monthly", reference_date, logs_30,
                FirstIncidents(Incidents(logs_30)),
                MonthlyPath(reference_date))

reportUnchanged ==
    /\ UNCHANGED <<log, alerts, files, clock, written, foreign>>
    /\ UNCHANGED <<checkerVars, mainVars, japeriVars, jobVars>>

\* ReportGenerator.generate_daily_report called for a day
ReportDaily ==
    /\ \E for_date \in ObservedDays :
          report' = generate_daily_report(log, for_date)
    /\ reportUnchanged

\* ReportGenerator.generate_monthly_report called for a reference day
ReportMonthly ==
    /\ \E reference_date \in ObservedDays :
          report' = generate_monthly_report(log, reference_date)
    /\ reportUnchanged

\* monitor_japeri.generate_daily_report called for a day
JReportDaily ==
    /\ \E for_date \in ObservedDays :
          report' = j_generate_daily_report(log, for_date)
    /\ reportUnchanged

\* monitor_japeri.generate_monthly_report called for a reference day
JReportMonthly ==
    /\ \E reference_date \in ObservedDays :
          report' = j_generate_monthly_report(log, reference_date)
    /\ reportUnchanged

StoreNext ==
    \/ NextDay
    \/ StoreAppend
    \/ ForeignLine
    \/ ReportDaily
    \/ ReportMonthly
    \/ JReportDaily
    \/ JReportMonthly

SpecStore == Init /\ [][StoreNext]_vars

\* ------------------------------------------------------------ C11 .. C20
Made(call) == \E i \in 1..Len(calls) : calls[i] = call
TimesMade(call) == Cardinality({i \in 1..Len(calls) : calls[i] = call})
ResultProduced == pc \in {"append", "notify", "raised", "ended"}
OrgSelectCauses == {"org_select not visible", "option not found"}
ErroNotes(msgs) == {msgs[i] : i \in {j \in 1..Len(msgs) : IsErro(msgs[j])}}

\* C11: whenever the browser probe has ended in Failed, whatever state it
\* failed from (launch and page load included), a screenshot capture has
\* been attempted by the time the result is produced.
C11_CaptureOnEveryFailure ==
    (ResultProduced /\ step = "Failed") => Made("screenshot")

\* C12: when the organization selector cannot be used, the result has
\* ok_playwright false, its message trail holds two distinct failure notes
\* (one per selection strategy), and a capture to the timestamp-named path
\* has been made.
C12_BothStrategiesNoted ==
    (/\ ResultProduced /\ step = "Failed" /\ Len(detail_msgs) > 0
     /\ detail_msgs[Len(detail_msgs)] \in {ErroNote(c) : c \in OrgSelectCauses})
    => /\ ~result.ok_playwright
       /\ Cardinality(ErroNotes(result.playwright_detail.messages)) = 2
       /\ Made("screenshot")
       /\ result.screenshot \in {NoPath, <<"fail", result.timestamp>>}

C14_HttpFlag ==
    (pc \notin {"idle", "attempt", "http"}) =>
        /\ result.http_detail.kind \in {"status", "error"}
        /\ result.ok_http <=> (/\ result.http_detail.kind = "status"
                               /\ result.http_detail.status_code = 200)
        /\ result.http_detail.kind = "error" =>
              /\ ~result.ok_http
              /\ result.http_detail.status_code = 0
              /\ result.http_detail.messages = <<>>
        /\ TimesMade("get") = 1

C14_Witness ==
    /\ pc = "ended" /\ ~result.ok_http
    /\ result.http_detail.kind = "status" /\ result.http_detail.status_code = 503

\* C15: within an attempt the HTTP probe, the browser probe, the log append
\* and the notifier happen in this order; the browser probe follows the HTTP
\* probe whatever its outcome, and the notifier is invoked only after the
\* attempt's record is in the log.
C15_AttemptOrder ==
    /\ [](/\ \A i \in 1..Len(calls), j \in 1..Len(calls) :
                (i < j) =>
                   \/ calls[i] = "get"
                   \/ calls[i] = "launch" /\ calls[j] # "get"
                   \/ calls[i] = "screenshot" /\ calls[j] \in {"append", "slack"}
                   \/ calls[i] = "append" /\ calls[j] = "slack"
          /\ TimesMade("get") <= 1 /\ TimesMade("launch") <= 1
          /\ TimesMade("append") <= 1 /\ TimesMade("slack") <= 1
          /\ Made("launch") => Made("get")
          /\ Made("append") => Made("launch")
          /\ Made("slack") => Made("append"))
    /\ [][pc = "http" /\ pc' # "http" => pc' = "launch"]_vars
    /\ [][alerts' # alerts =>
             /\ Made("append")
             /\ Len(read_all_logs(log)) > 0
             /\ read_all_logs(log)[Len(read_all_logs(log))] = result]_vars

C15_Witness ==
    /\ calls = <<"get", "launch", "append", "slack">>
    /\ ~result.ok_http /\ pc = "ended"

\* C16: a failure of the log append does not abort the attempt: perform_check
\* goes on to the notifier and returns, and no probe is run again.
C16_AppendFailureContained ==
    [][(pc = "append" /\ pc' # "append") => pc' = "notify"]_vars

\* The records a report over the days in `days` has to use: the entries
\* written by append_log whose timestamp falls on one of them, in order.
RecordsOn(days) == SelectSeq(written, LAMBDA e : (e.timestamp \div 86400) \in days)
WindowOf(r) ==
    IF r.fn \in {"report.daily", "japeri.daily"} THEN {r.date}
    ELSE (r.date - 29)..r.date

\* C17: from an empty log file, after N successful append_log calls and
\* nothing else written, reading the file yields exactly the N entries
\* appended, each with recorded_at stamped, in append order.
C17_ReadYieldsAppended ==
    foreign = 0 =>
        /\ read_all_logs(log) = written
        /\ \A i \in 1..Len(written) : written[i].recorded_at # NoTime

C17_Witness ==
    /\ foreign = 0 /\ Len(written) = 2 /\ written[1] # written[2]
    /\ Len(read_all_logs(log)) = 2

\* C18: no report generation (daily or monthly, of either program) fails
\* because of a malformed line; the records it uses are exactly the
\* well-formed lines of its days, in stored order.
C18_MalformedLinesSkipped ==
    [][report' # report =>
          /\ report'.cause # "JSONDecodeError"
          /\ report'.logs = RecordsOn(WindowOf(report'))]_vars

\* C19: the log file only grows at its end: every step leaves the earlier
\* contents as a prefix, and generating a report leaves the file unchanged.
C19_AppendOnly ==
    /\ [][IsPrefix(log, log')]_vars
    /\ [][report' # report => log' = log]_vars

C19_Witness ==
    /\ Len(written) = 2 /\ Len(log) = 4
    /\ report.status = "written" /\ Len(report.logs) = 2

\* C20: in the log file the records are in the order of their timestamps
\* (the start times of their checks): a record never follows one with a
\* later timestamp, whatever the interleaving of the checks.
C20_StoreOrderIsTimeOrder ==
    \A i \in 1..Len(read_all_logs(log)), j \in 1..Len(read_all_logs(log)) :
        (i < j) =>
            read_all_logs(log)[i].timestamp <= read_all_logs(log)[j].timestamp

\* ------------------------------------------------------------ C21 .. C27
DayOfRecord(e) == e.timestamp \div 86400
BothOk(e) == e.ok_http /\ e.ok_playwright

\* C21: whatever the log file holds and whatever the day d, the daily report
\* of ReportGenerator has total = the number of records of day d, ok_count =
\* the number of those with both flags true, and as incidents exactly the
\* other records of the day in stored order; total = ok_count + incidents.
C21_DailyTotals ==
    [][(report' # report /\ report'.fn = "report.daily") =>
          LET recs == SelectSeq(written,
                                LAMBDA e : DayOfRecord(e) = report'.date)
          IN  /\ report'.total = Len(recs)
              /\ report'.ok_count =
                     Cardinality({i \in 1..Len(recs) : BothOk(recs[i])})
              /\ report'.incidents = SelectSeq(recs, LAMBDA e : ~BothOk(e))
              /\ report'.total = report'.ok_count + Len(report'.incidents)]_vars

C21_Witness ==
    /\ report.fn = "report.daily" /\ report.status = "written"
    /\ report.total = 2 /\ report.ok_count = 1
    /\ Len(report.incidents) = 1 /\ ~report.incidents[1].ok_playwright
    /\ report.incidents[1].ok_http

\* C22: for a reference day r both monthly generators take exactly the
\* records whose day is one of r-29 .. r: a record of day r-30 or r+1 is
\* left out, a record of day r-29 or r is taken.
C22_MonthlyWindow ==
    [][(report' # report /\ report'.fn \in {"report.monthly", "japeri.monthly"}) =>
          LET r == report'.date
              taken == {i \in 1..Len(written) :
                          /\ DayOfRecord(written[i]) >= r - 29
                          /\ DayOfRecord(written[i]) <= r}
          IN  /\ report'.logs =
                     SelectSeq(written, LAMBDA e : /\ DayOfRecord(e) >= r - 29
                                                   /\ DayOfRecord(e) <= r)
              /\ Len(report'.logs) = Cardinality(taken)
              /\ \A i \in 1..Len(written) :
                     DayOfRecord(written[i]) \in {r - 30, r + 1} => i \notin taken
              /\ \A i \in 1..Len(written) :
                     DayOfRecord(written[i]) \in {r - 29, r} => i \in taken]_vars

C22_Witness ==
    /\ report.fn = "japeri.monthly" /\ Len(written) = 2
    /\ DayOfRecord(written[1]) = report.date
    /\ DayOfRecord(written[2]) = report.date + 1
    /\ report.logs = <<written[1]>>

\* C23: a monthly report lists at most 20 incidents, the first 20 records
\* of its window that are not ok, in stored order, and its total and ok_count
\* count every record of the window.
C23_MonthlyIncidentCap ==
    [][(report' # report /\ report'.fn \in {"report.monthly", "japeri.monthly"}) =>
          LET r == report'.date
              recs == SelectSeq(written, LAMBDA e : /\ DayOfRecord(e) >= r - 29
                                                    /\ DayOfRecord(e) <= r)
              notok == SelectSeq(recs, LAMBDA e : ~BothOk(e))
          IN  /\ report'.status = "written"
              /\ Len(report'.incidents) <= 20
              /\ report'.incidents =
                     SubSeq(notok, 1, IF Len(notok) < 20 THEN Len(notok) ELSE 20)
              /\ report'.total = Len(recs)
              /\ report'.ok_count =
                     Cardinality({i \in 1..Len(recs) : BothOk(recs[i])})]_vars

\* C24: ReportGenerator.generate_daily_report and generate_monthly_report
\* each complete and return the path of their document, whatever the log
\* file holds (nothing included).
C24_ReportsReturnPath ==
    [][(report' # report /\ report'.fn \in {"report.daily", "report.monthly"}) =>
          /\ report'.status = "written"
          /\ report'.path # <<>>]_vars

\* C27: in monitor_japeri.perform_check ok_playwright is true only if an
\* iframe or embed was found on the page after the document-open step; a
\* click on a link with no viewer found does not count as success.
C27_SuccessNeedsViewer ==
    \A t \in Threads :
        /\ (jpc[t] \in {"shot", "append", "notify"} /\ jok[t]) => jviewer[t]
        /\ (jpc[t] \in {"append", "notify"} /\ jres[t].ok_playwright) => jviewer[t]

\* C26: once main(), started with a valid configuration, has gone past its
\* add_job calls, the check job, the daily report job and the monthly report
\* job are registered (the scheduler start and the initial check follow).
C26_MainRegistersJobs ==
    (mainpc \notin {"stopped", "configured", "config_error"}) =>
        jobs = {"job_check", "job_daily_report", "job_monthly_report"}

\* C25: an exception raised inside a job's body is caught in the job
\* function, one alert is sent through send_slack and the job function
\* returns; send_slack never raises, with no webhook (local notice) or with a
\* delivery that fails; a body that returns sends nothing.
C25_JobBoundary ==
    /\ [](\A j \in JobNames : jobpc[j] \in {"idle", "body", "except"})
    /\ [](/\ \A i \in 1..Len(deliveries) :
                deliveries[i] \in {"notice", "posted", "error printed"}
          /\ webhook = "unset" =>
                \A i \in 1..Len(deliveries) : deliveries[i] = "notice"
          /\ Len(alerts) = Len(deliveries))
    /\ [][\A j \in JobNames :
             /\ (jobpc[j] = "except" /\ jobpc'[j] # "except") =>
                   /\ jobpc'[j] = "idle"
                   /\ Len(alerts') = Len(alerts) + 1
                   /\ alerts'[Len(alerts')].job = j
             /\ (jobpc[j] = "body" /\ jobpc'[j] = "idle") => alerts' = alerts
             /\ (jobpc[j] = "body" /\ jobpc'[j] # "body") =>
                   jobpc'[j] \in {"idle", "except"}]_vars

C25_Witness ==
    /\ Len(deliveries) = 2
    /\ deliveries[1] = "error printed"
    /\ alerts[1].job = "job_daily_report"
    /\ \A j \in JobNames : jobpc[j] = "idle"

====
